---- MODULE Spec2Model ----
(***************************************************************************)
(* Model of aws_dashboard_server.py: six HTTP handlers over a relational   *)
(* backend.  One request is in flight at a time; a handler is a sequence   *)
(* of steps (pc), each of which may raise.  The lunch table is the only    *)
(* table the service writes.                                               *)
(***************************************************************************)
EXTENDS Integers, Sequences, FiniteSets, TLC

VARIABLES
    lunch,            \* committed content of table lunch (sequence of rows)
    ep,               \* handler of the request in flight / last served
    pc,               \* position inside the handler; "done" = returned
    data,             \* save_lunch_data: parsed request body
    alive,            \* return value of test_db_connection in this call
    korean_to_conid,  \* save_lunch_data: KoreanName -> conID mapping
    txn,              \* save_lunch_data: table as seen inside the transaction
    idx,              \* save_lunch_data: number of entries already iterated
    updated_count,    \* save_lunch_data: local counter
    acc,              \* get_all_data: local dict "result"
    issued,           \* statements against the four tables issued by this call
    faults,           \* steps of this call at which an exception was raised
    result,           \* value the handler returned (or "raise" if it escaped)
    pre,              \* lunch as it was when this call started
    saved,            \* the last save_lunch_data call committed without a fault
    run,              \* 1, or 2 when this save repeats the previous batch
    first             \* outcome of the first run while the second one runs

vars == <<lunch, ep, pc, data, alive, korean_to_conid, txn, idx, updated_count,
          acc, issued, faults, result, pre, saved, run, first>>

----------------------------------------------------------------------------
(* Bounds and value encodings *)

MaxLen == 2                       \* longest request batch explored

None == -1                        \* Python None / SQL NULL
EmptyStr == 0                     \* the empty string ""
Times == {1, 2}                   \* non-empty lunch_time strings, in string order
NoName == "None"                  \* None as a name (absent key, NULL KoreanName)

Endpoints == {"ques", "uastatus", "agent_conid", "save", "get_lunch", "all"}

\* JSON values a batch may hold: objects with optional name / lunch_time, and
\* one value that is not an object (item.get raises on it).
DictEntries ==
    {[kind |-> "dict", name |-> n, lunch_time |-> t] : n \in {"A", "B", "C"}, t \in Times}
    \cup {[kind |-> "dict", name |-> "Z", lunch_time |-> 1],
          [kind |-> "dict", name |-> NoName, lunch_time |-> 1],
          [kind |-> "dict", name |-> "B", lunch_time |-> EmptyStr],
          [kind |-> "dict", name |-> "B", lunch_time |-> None]}
BadEntry == [kind |-> "bad", name |-> NoName, lunch_time |-> None]
Entries == DictEntries \cup {BadEntry}
Batches == UNION {[1..n -> Entries] : n \in 0..MaxLen}

\* Content of table lunch when the service starts: conID, KoreanName fixed per
\* row, lunch_time as left by earlier use.
LunchRow(c, n, t) == [conID |-> c, KoreanName |-> n, lunch_time |-> t]
InitTables ==
    {<<LunchRow(0, "A", ta), LunchRow(1, "B", None),
       LunchRow(2, "C", None), LunchRow(3, NoName, tn)>> :
        ta \in {None, 2}, tn \in {None, 1}}

\* Fixed content of the read-only tables.
QuesTable == <<[id |-> 1, created_at |-> 10], [id |-> 3, created_at |-> None],
               [id |-> 2, created_at |-> 20]>>
UaTable == <<[agent |-> "a1", status |-> "ready"], [agent |-> "a2", status |-> "lunch"]>>
AgentTable == <<[conID |-> 1, agent |-> "a1"]>>

----------------------------------------------------------------------------
(* Payloads *)

ConnFailMsg == "db_connect_failed"
QueryFailMsg == "query_failed"
LookupFailMsg == "lookup_failed"
SaveFailMsg == "save_failed"

NoResult == [type |-> "none"]
Raised == [type |-> "raise"]
Records(rows) == [type |-> "list", rows |-> rows]
GetError(msg) == [type |-> "dict", error |-> msg]
SaveError(msg) == [type |-> "dict", status |-> "error", message |-> msg]
SaveSuccess(n, d) ==
    [type |-> "dict", status |-> "success", message |-> "saved", count |-> n, data |-> d]

ConnFail(e) == IF e = "save" THEN SaveError(ConnFailMsg) ELSE GetError(ConnFailMsg)
OuterError(e) == IF e = "save" THEN SaveError(SaveFailMsg) ELSE GetError(QueryFailMsg)

----------------------------------------------------------------------------
(* Pure helpers *)

Min(a, b) == IF a < b THEN a ELSE b

Limit(s, n) == SubSeq(s, 1, Min(n, Len(s)))

\* All orderings of the indices in I that are ascending by key[i]; rows with
\* equal keys may come in either order.
OrderedBy(I, key) ==
    {s \in [1..Cardinality(I) -> I] :
        /\ \A i, j \in 1..Cardinality(I) : i # j => s[i] # s[j]
        /\ \A i, j \in 1..Cardinality(I) : i < j => key[s[i]] <= key[s[j]]}

Str(v) == <<"str", v>>

QuesLimit == 100
UaLimit == 1000
AgentLimit == 100

QuesKey == [i \in DOMAIN QuesTable |-> 0 - QuesTable[i].id]
QuesSelect ==
    LET o == CHOOSE s \in OrderedBy(DOMAIN QuesTable, QuesKey) : TRUE
    IN  Limit([i \in DOMAIN o |-> QuesTable[o[i]]], QuesLimit)
QuesRecords == [i \in DOMAIN QuesSelect |->
                  [QuesSelect[i] EXCEPT !.created_at = Str(@)]]
UaRecords == Limit(UaTable, UaLimit)
AgentRecords == Limit(AgentTable, AgentLimit)

RECURSIVE BuildMapping(_, _, _)
BuildMapping(t, i, m) ==
    IF i > Len(t) THEN m
    ELSE IF t[i].KoreanName # NoName
         THEN BuildMapping(t, i + 1,
                 [n \in DOMAIN m \cup {t[i].KoreanName} |->
                     IF n = t[i].KoreanName THEN t[i].conID ELSE m[n]])
         ELSE BuildMapping(t, i + 1, m)

EmptyMap == [n \in {} |-> None]
Lookup(m, n) == IF n \in DOMAIN m THEN m[n] ELSE None

\* Python truth value of None, an int or a str.
Truthy(v) == v # None /\ v # 0 /\ v # EmptyStr
\* Variant: the lunch_time operand of the condition is dropped.
ShouldUpdateAnyTime(conid, lunch_time) == Truthy(conid)
ShouldUpdate(conid, lunch_time) == Truthy(conid) /\ Truthy(lunch_time)

\* UPDATE lunch SET lunch_time = :lunch_time WHERE conID = :conid
ExecUpdate(t, conid, lunch_time) ==
    [i \in DOMAIN t |-> IF t[i].conID = conid
                        THEN [t[i] EXCEPT !.lunch_time = lunch_time] ELSE t[i]]
\* result.rowcount: rows matched by the WHERE clause (SQLAlchemy opens MySQL
\* connections with the found-rows flag), whether or not the value changes.
RowCount(t, conid) == Cardinality({i \in DOMAIN t : t[i].conID = conid})

\* Variant: the connection autocommits, so a failure keeps the earlier writes.
ExitTxnNoRollback(committed, working, failed) == working
ExitTxn(committed, working, failed) == IF failed THEN committed ELSE working

LunchSelects(t) ==
    LET I == {i \in DOMAIN t : t[i].lunch_time # None}
        key == [i \in I |-> t[i].lunch_time]
    IN  {[k \in DOMAIN o |-> t[o[k]]] : o \in OrderedBy(I, key)}

\* Variant: the request body is read before the try block is entered.
GuardedAfterParse(e) ==
    IF e = "save" THEN {"probe", "lookup", "begin", "entry", "update", "commit", "respond"}
    ELSE IF e = "all" THEN {"probe", "ques", "uastatus", "agent"}
    ELSE {"probe", "read"}
Guarded(e) ==
    IF e = "save" THEN {"parse", "probe", "lookup", "begin", "entry", "update", "commit", "respond"}
    ELSE IF e = "all" THEN {"probe", "ques", "uastatus", "agent"}
    ELSE {"probe", "read"}

\* Variants: no read, or every read, of get_all_data has its own try block.
InlineStepsNone == {}
InlineStepsAll == {"ques", "uastatus", "agent"}
InlineSteps == {"agent"}

\* Variant: the outcome of the probe is ignored.
ProbeGateIgnored(ok) == "go"
ProbeGate(ok) == IF ok THEN "go" ELSE "return"

Locals == {"request", "data", "korean_to_conid", "df_lunch", "conn", "updated_count",
           "item", "korean_name", "lunch_time", "conid", "result"}
ResponseNames == {"lunch_data"}

----------------------------------------------------------------------------
(* State machine *)

NoFirst == [count |-> 0, table |-> <<>>]

Init ==
    /\ lunch \in InitTables
    /\ ep = "none"
    /\ pc = "idle"
    /\ data = <<>>
    /\ alive = "unknown"
    /\ korean_to_conid = EmptyMap
    /\ txn = <<>>
    /\ idx = 0
    /\ updated_count = 0
    /\ acc = EmptyMap
    /\ issued = <<>>
    /\ faults = {}
    /\ result = NoResult
    /\ pre = lunch
    /\ saved = FALSE
    /\ run = 1
    /\ first = NoFirst

\* Locals of a fresh handler invocation.
Enter(e) ==
    /\ ep' = e
    /\ pc' = IF e = "save" THEN "parse" ELSE "probe"
    /\ alive' = "unknown"
    /\ korean_to_conid' = EmptyMap
    /\ txn' = <<>>
    /\ idx' = 0
    /\ updated_count' = 0
    /\ acc' = EmptyMap
    /\ issued' = <<>>
    /\ faults' = {}
    /\ result' = NoResult
    /\ pre' = lunch
    /\ UNCHANGED lunch

\* A request arrives for endpoint e (batch is the body of POST /db/lunch).
Request(e, batch) ==
    /\ pc = "idle"
    /\ Enter(e)
    /\ data' = IF e = "save" THEN batch ELSE <<>>
    /\ saved' = FALSE
    /\ run' = 1
    /\ first' = NoFirst

\* The response has been sent; the handler's frame is gone.
Reply ==
    /\ pc = "done"
    /\ pc' = "idle"
    /\ ep' = "none"
    /\ data' = <<>>
    /\ alive' = "unknown"
    /\ korean_to_conid' = EmptyMap
    /\ txn' = <<>>
    /\ idx' = 0
    /\ updated_count' = 0
    /\ acc' = EmptyMap
    /\ issued' = <<>>
    /\ faults' = {}
    /\ result' = NoResult
    /\ pre' = lunch
    /\ saved' = FALSE
    /\ run' = 1
    /\ first' = NoFirst
    /\ UNCHANGED lunch

\* The client posts the batch it has just saved once more.
Resend ==
    /\ pc = "done"
    /\ ep = "save"
    /\ run = 1
    /\ saved
    /\ Enter("save")
    /\ data' = data
    /\ saved' = FALSE
    /\ run' = 2
    /\ first' = [count |-> updated_count, table |-> lunch]

\* The client reads the schedule right after the batch it has saved.
ReadBack ==
    /\ pc = "done"
    /\ ep = "save"
    /\ saved
    /\ Enter("get_lunch")
    /\ UNCHANGED <<data, saved>>
    /\ run' = 1
    /\ first' = NoFirst

\* An exception raised at step reaches the handler's outer except clause if
\* the step lies inside the try block, and the caller otherwise.
Fail(step) ==
    /\ faults' = faults \cup {step}
    /\ result' = IF step \in Guarded(ep) THEN OuterError(ep) ELSE Raised
    /\ pc' = "done"

AfterProbe(e) == IF e = "save" THEN "lookup" ELSE IF e = "all" THEN "ques" ELSE "read"

\* data = await request.json()
ParseBody ==
    /\ pc = "parse"
    /\ \E ok \in BOOLEAN :
        IF ok THEN /\ pc' = "probe"
                   /\ UNCHANGED <<faults, result>>
        ELSE Fail("parse")
    /\ UNCHANGED <<lunch, ep, data, alive, korean_to_conid, txn, idx, updated_count,
                   acc, issued, pre, saved, run, first>>

\* if not test_db_connection(): return <connection failure>
Probe ==
    /\ pc = "probe"
    /\ \E o \in {"ok", "sqlerr", "exc"} :
        IF o = "exc"
        THEN /\ Fail("probe")
             /\ UNCHANGED alive
        ELSE /\ alive' = IF o = "ok" THEN "true" ELSE "false"
             /\ faults' = IF o = "ok" THEN faults ELSE faults \cup {"probe"}
             /\ IF ProbeGate(o = "ok") = "go"
                THEN /\ pc' = AfterProbe(ep)
                     /\ UNCHANGED result
                ELSE /\ pc' = "done"
                     /\ result' = ConnFail(ep)
    /\ UNCHANGED <<lunch, ep, data, korean_to_conid, txn, idx, updated_count,
                   acc, issued, pre, saved, run, first>>

Stmt(op, table) == [op |-> op, table |-> table]

TableOf(e) == IF e = "ques" THEN "ques"
              ELSE IF e = "uastatus" THEN "uastatus"
              ELSE IF e = "agent_conid" THEN "agent_conID" ELSE "lunch"

ReadResults(e) == IF e = "ques" THEN {QuesRecords}
                  ELSE IF e = "uastatus" THEN {UaRecords}
                  ELSE IF e = "agent_conid" THEN {AgentRecords}
                  ELSE LunchSelects(lunch)

\* The single-table GET handlers: pd.read_sql(...) ; return df.to_dict(...)
Read ==
    /\ pc = "read"
    /\ issued' = Append(issued, Stmt("SELECT", TableOf(ep)))
    /\ \/ \E rows \in ReadResults(ep) :
            /\ result' = Records(rows)
            /\ pc' = "done"
            /\ UNCHANGED faults
       \/ Fail("read")
    /\ UNCHANGED <<lunch, ep, data, alive, korean_to_conid, txn, idx, updated_count,
                   acc, pre, saved, run, first>>

\* One table read of get_all_data.
AllStep(step, key, rows, next) ==
    /\ pc = step
    /\ issued' = Append(issued, Stmt("SELECT", key))
    /\ \E ok \in BOOLEAN :
        LET acc2 == IF ok THEN acc @@ (key :> Records(rows))
                    ELSE acc @@ (key :> GetError(QueryFailMsg))
        IN  IF ok \/ step \in InlineSteps
            THEN /\ acc' = acc2
                 /\ faults' = IF ok THEN faults ELSE faults \cup {step}
                 /\ pc' = next
                 /\ result' = IF next = "done" THEN [type |-> "dict"] @@ acc2 ELSE result
            ELSE /\ Fail(step)
                 /\ UNCHANGED acc
    /\ UNCHANGED <<lunch, ep, data, alive, korean_to_conid, txn, idx, updated_count,
                   pre, saved, run, first>>

AllQues == AllStep("ques", "ques", QuesRecords, "uastatus")
AllUastatus == AllStep("uastatus", "uastatus", UaRecords, "agent")
AllAgent == AllStep("agent", "agent_conID", AgentRecords, "done")

\* df_lunch = pd.read_sql("SELECT conID, KoreanName FROM lunch") ; build mapping
LoadLookup ==
    /\ pc = "lookup"
    /\ issued' = Append(issued, Stmt("SELECT", "lunch"))
    /\ \E ok \in BOOLEAN :
        IF ok THEN /\ korean_to_conid' = BuildMapping(lunch, 1, EmptyMap)
                   /\ pc' = "begin"
                   /\ UNCHANGED <<faults, result>>
        ELSE /\ faults' = faults \cup {"lookup"}
             /\ result' = SaveError(LookupFailMsg)
             /\ pc' = "done"
             /\ UNCHANGED korean_to_conid
    /\ UNCHANGED <<lunch, ep, data, alive, txn, idx, updated_count,
                   acc, pre, saved, run, first>>

\* with engine.begin() as conn: updated_count = 0
Begin ==
    /\ pc = "begin"
    /\ \E ok \in BOOLEAN :
        IF ok THEN /\ txn' = lunch
                   /\ pc' = "loop"
                   /\ UNCHANGED <<faults, result>>
        ELSE /\ Fail("begin")
             /\ UNCHANGED txn
    /\ UNCHANGED <<lunch, ep, data, alive, korean_to_conid, idx, updated_count,
                   acc, issued, pre, saved, run, first>>

\* One iteration of "for item in data".
LoopEntry ==
    /\ pc = "loop"
    /\ idx < Len(data)
    /\ LET item == data[idx + 1]
           conid == Lookup(korean_to_conid, item.name)
       IN  IF item.kind # "dict"
           THEN /\ Fail("entry")
                /\ lunch' = ExitTxn(lunch, txn, TRUE)
                /\ UNCHANGED <<txn, idx, updated_count, issued>>
           ELSE IF ShouldUpdate(conid, item.lunch_time)
           THEN /\ issued' = Append(issued, Stmt("UPDATE", "lunch"))
                /\ \E ok \in BOOLEAN :
                    IF ok
                    THEN /\ txn' = ExecUpdate(txn, conid, item.lunch_time)
                         /\ updated_count' = IF RowCount(txn, conid) > 0
                                             THEN updated_count + 1 ELSE updated_count
                         /\ idx' = idx + 1
                         /\ UNCHANGED <<lunch, pc, faults, result>>
                    ELSE /\ Fail("update")
                         /\ lunch' = ExitTxn(lunch, txn, TRUE)
                         /\ UNCHANGED <<txn, idx, updated_count>>
           ELSE /\ idx' = idx + 1
                /\ UNCHANGED <<lunch, pc, txn, updated_count, issued, faults, result>>
    /\ UNCHANGED <<ep, data, alive, korean_to_conid, acc, pre, saved, run, first>>

\* Leaving the with block: commit, or roll back if the commit raises.
Commit ==
    /\ pc = "loop"
    /\ idx = Len(data)
    /\ \E ok \in BOOLEAN :
        IF ok THEN /\ lunch' = ExitTxn(lunch, txn, FALSE)
                   /\ saved' = TRUE
                   /\ pc' = "respond"
                   /\ UNCHANGED <<faults, result>>
        ELSE /\ Fail("commit")
             /\ lunch' = ExitTxn(lunch, txn, TRUE)
             /\ UNCHANGED saved
    /\ UNCHANGED <<ep, data, alive, korean_to_conid, txn, idx, updated_count,
                   acc, issued, pre, run, first>>

\* return {"status": "success", ..., "count": len(lunch_data), "data": lunch_data}
Respond ==
    /\ pc = "respond"
    /\ IF ResponseNames \subseteq Locals
       THEN /\ result' = SaveSuccess(Len(data), data)
            /\ pc' = "done"
            /\ UNCHANGED faults
       ELSE Fail("respond")
    /\ UNCHANGED <<lunch, ep, data, alive, korean_to_conid, txn, idx, updated_count,
                   acc, issued, pre, saved, run, first>>

\* Requests are served one at a time.
Arrive ==
    /\ pc = "idle"
    /\ \/ \E e \in Endpoints \ {"save"} : Request(e, <<>>)
       \/ \E b \in Batches : Request("save", b)

Next ==
    \/ Arrive
    \/ Reply
    \/ Resend
    \/ ReadBack
    \/ ParseBody
    \/ Probe
    \/ Read
    \/ AllQues
    \/ AllUastatus
    \/ AllAgent
    \/ LoadLookup
    \/ Begin
    \/ LoopEntry
    \/ Commit
    \/ Respond

Spec == Init /\ [][Next]_vars

TypeOK == pc \in {"idle", "done", "parse", "probe", "read", "ques", "uastatus", "agent",
                  "lookup", "begin", "loop", "respond"}

----------------------------------------------------------------------------
(* Properties *)

\* Steps at which the environment (request body, driver, backend) can fail.
Injected == {"parse", "probe", "lookup", "begin", "entry", "update", "commit", "read",
             "ques", "uastatus", "agent"}

Mapping == BuildMapping(lunch, 1, EmptyMap)
NonEmpty(t) == t # None /\ t # EmptyStr
Resolves(item) == item.kind = "dict" /\ item.name \in DOMAIN Mapping
AllResolve == \A i \in DOMAIN data : Resolves(data[i]) /\ NonEmpty(data[i].lunch_time)
Skippable(item) ==
    /\ item.kind = "dict"
    /\ \/ item.name \notin DOMAIN korean_to_conid
       \/ ~NonEmpty(item.lunch_time)
SaveReturned == ep = "save" /\ pc = "done"

\* C1: when the probe, the lookup read and every UPDATE of save_lunch_data
\* succeed, the returned payload has status "success", count equal to the
\* size of the input batch and data equal to the input batch.
C1_SuccessEchoesInput ==
    (SaveReturned /\ alive = "true" /\ faults \cap Injected = {})
        => /\ result.status = "success"
           /\ result.count = Len(data)
           /\ result.data = data

\* C2: whenever test_db_connection returns false, the endpoint returns its
\* connection-failure payload and the call issues no SELECT or UPDATE against
\* ques, uastatus, agent_conID or lunch.
C2_ProbeFailureShortCircuits ==
    alive = "false" => /\ pc = "done"
                       /\ result = ConnFail(ep)
                       /\ issued = <<>>
C2_Witness ==
    /\ alive = "false"
    /\ ep = "save"
    /\ Len(data) = 2
    /\ Resolves(data[1]) /\ NonEmpty(data[1].lunch_time)

\* C3: if an UPDATE raises, an entry cannot be processed or the commit fails
\* after the transaction of save_lunch_data is opened, every lunch row has
\* after the call the lunch_time it had before the call.
C3_FailedBatchRolledBack ==
    (SaveReturned /\ faults \cap {"entry", "update", "commit"} # {}) => lunch = pre
C3_Witness ==
    /\ SaveReturned
    /\ faults \cap {"entry", "update"} # {}
    /\ idx >= 1
    /\ txn # pre
    /\ lunch = pre

C5_AgentReadIsolated ==
    (ep = "all" /\ pc = "done" /\ "agent" \in faults)
        => /\ DOMAIN result = {"type", "ques", "uastatus", "agent_conID"}
           /\ result.ques = Records(QuesRecords)
           /\ result.uastatus = Records(UaRecords)
           /\ result.agent_conID = GetError(QueryFailMsg)
C5_Witness ==
    /\ ep = "all" /\ pc = "done"
    /\ faults = {"agent"}
    /\ alive = "true"

\* C6: for a batch in which every entry has a non-empty lunch_time and a name
\* that resolves to the conID of a lunch row, save_lunch_data counts every
\* entry (updated_count = batch size) on the first and on the repeated run,
\* and the repeated run leaves the table as the first run left it.
C6_Idempotent ==
    (SaveReturned /\ faults \cap Injected = {} /\ AllResolve)
        => /\ updated_count = Len(data)
           /\ run = 2 => (first.count = Len(data) /\ lunch = first.table)

\* C7: an entry of save_lunch_data whose name is not in the mapping, or whose
\* lunch_time is absent or empty, is passed over: the step raises nothing,
\* leaves updated_count, the transaction's view and the table unchanged,
\* issues no statement, and the loop moves on to the next entry.
C7_SkipIsSilent ==
    [][(pc = "loop" /\ idx < Len(data) /\ Skippable(data[idx + 1]))
        => /\ pc' = "loop"
           /\ idx' = idx + 1
           /\ updated_count' = updated_count
           /\ txn' = txn
           /\ lunch' = lunch
           /\ issued' = issued
           /\ faults' = faults
           /\ result' = result]_vars
C7_Witness ==
    /\ ep = "save" /\ pc = "loop"
    /\ idx = 2
    /\ Skippable(data[1])
    /\ faults = {}
    /\ updated_count = 1
    /\ txn # pre

\* C8: after a save_lunch_data whose batch holds an entry {name, lunch_time =
\* t}, t non-empty, name mapped to the conID c of a lunch row (taken as the
\* batch's last entry for c), the next get_lunch_data returns a sequence with
\* a record of conID c and lunch_time t, only rows whose lunch_time is not
\* null, in ascending lunch_time order.
LastFor(i) ==
    \A j \in DOMAIN data :
        (j > i /\ Resolves(data[j]) /\ NonEmpty(data[j].lunch_time))
            => Mapping[data[j].name] # Mapping[data[i].name]
C8_RoundTrip ==
    (ep = "get_lunch" /\ pc = "done" /\ saved /\ faults = {})
        => /\ result.type = "list"
           /\ \A i \in DOMAIN data :
                (Resolves(data[i]) /\ NonEmpty(data[i].lunch_time) /\ LastFor(i))
                    => \E k \in DOMAIN result.rows :
                          /\ result.rows[k].conID = Mapping[data[i].name]
                          /\ result.rows[k].lunch_time = data[i].lunch_time
           /\ \A k \in DOMAIN result.rows : result.rows[k].lunch_time # None
           /\ \A k, l \in DOMAIN result.rows :
                k < l => result.rows[k].lunch_time <= result.rows[l].lunch_time

IsErrorPayload(e, r) ==
    IF e = "save"
    THEN {"status", "message"} \subseteq DOMAIN r /\ r.status = "error"
    ELSE "error" \in DOMAIN r

\* C9 as stated: every handler returns a payload whatever step fails, and
\* whenever a step failed the payload is an error payload (an "error" key for
\* the GET endpoints, status "error" for POST /db/lunch).
C9_FaultsBecomeErrorPayloads ==
    pc = "done" => /\ result.type \in {"list", "dict"}
                   /\ faults # {} => IsErrorPayload(ep, result)

\* C9 amended: every handler returns a payload whatever step fails; whenever a
\* step failed the payload is an error payload, except that a failure of only
\* the agent_conID read in get_all_data is reported as an error object under
\* the "agent_conID" key of an otherwise normal response.
C9_FaultsBecomePayloads ==
    pc = "done" =>
        /\ result.type \in {"list", "dict"}
        /\ faults # {} =>
              \/ IsErrorPayload(ep, result)
              \/ /\ ep = "all"
                 /\ faults = {"agent"}
                 /\ "agent_conID" \in DOMAIN result
                 /\ "error" \in DOMAIN result.agent_conID
C9_Witness ==
    /\ SaveReturned
    /\ "parse" \in faults
    /\ result = SaveError(SaveFailMsg)

\* C10: whenever save_lunch_data returns a payload with status "error", the
\* lunch table after the call is the lunch table before the call.
C10_ErrorMeansUnchanged ==
    (SaveReturned /\ "status" \in DOMAIN result /\ result.status = "error")
        => lunch = pre

====
